---- MODULE Spec2Model ----
(***************************************************************************)
(* Model of src/src/App.jsx (YesNoSpeakingTrainer): the transcript         *)
(* classifier parseYesNo, the practice flow ask / reveal / goNext with its *)
(* countdown timer, and the session sequencer buildSession.                *)
(*                                                                         *)
(* A React function component re-creates its inner functions on every      *)
(* render, so a callback handed to setTimeout, to an utterance or to the   *)
(* recognizer keeps the state values of the render that created it.  The   *)
(* model keeps such a captured render as a record (see Snap).  State       *)
(* updates of one handler are applied together and followed by one render  *)
(* and its effects (automatic batching).                                   *)
(*                                                                         *)
(* Time is counted in seconds and advances to the expiry of the next       *)
(* countdown (Tick); a countdown fires when its delay has elapsed.  The    *)
(* timeout of 0 ms and the event of a cancelled utterance are the next     *)
(* tasks to run (Quiet); the timeout of 200 ms runs before a countdown     *)
(* expires.                                                                *)
(*                                                                         *)
(* Countdowns and question utterances carry a history flag, latest, that   *)
(* tells whether the latest call of ask() created them; the program does   *)
(* not read it.                                                            *)
(*                                                                         *)
(* The transcript shown on the page (recognized) is display state; only    *)
(* the classifier specification keeps it.                                  *)
(***************************************************************************)
EXTENDS Integers, Sequences, FiniteSets, TLC

\* ------------------------------------------------------------------------
\* Strings are sequences of one-character strings.
\* ------------------------------------------------------------------------

UpperChars == <<"A","B","C","D","E","F","G","H","I","J","K","L","M",
                "N","O","P","Q","R","S","T","U","V","W","X","Y","Z">>

LowerChars == <<"a","b","c","d","e","f","g","h","i","j","k","l","m",
                "n","o","p","q","r","s","t","u","v","w","x","y","z">>

\* String.prototype.toLowerCase, one character
LowerChar(c) ==
  IF \E i \in 1..Len(UpperChars) : UpperChars[i] = c
  THEN LowerChars[CHOOSE i \in 1..Len(UpperChars) : UpperChars[i] = c]
  ELSE c

toLowerCase(s) == [i \in 1..Len(s) |-> LowerChar(s[i])]

\* String.prototype.trim
RECURSIVE trimStart(_)
trimStart(s) ==
  IF s # <<>> /\ Head(s) = " " THEN trimStart(Tail(s)) ELSE s

RECURSIVE trimEnd(_)
trimEnd(s) ==
  IF s # <<>> /\ s[Len(s)] = " " THEN trimEnd(SubSeq(s, 1, Len(s) - 1)) ELSE s

trim(s) == trimEnd(trimStart(s))

\* String.prototype.startsWith
startsWith(t, w) == Len(w) <= Len(t) /\ SubSeq(t, 1, Len(w)) = w

\* String.prototype.includes
includes(t, w) ==
  \E i \in 1..(Len(t) - Len(w) + 1) : SubSeq(t, i, i + Len(w) - 1) = w

yesWords == <<
  <<"y","e","s">>,
  <<"y","e","a","h">>,
  <<"y","e","p">>,
  <<"y","u","p">>,
  <<"s","u","r","e">>,
  <<"o","f"," ","c","o","u","r","s","e">>,
  <<"i"," ","d","o">>,
  <<"i"," ","d","i","d">>,
  <<"i"," ","a","m">>,
  <<"i"," ","w","i","l","l">>,
  <<"i"," ","c","a","n">>,
  <<"i","t"," ","i","s">> >>

noWords == <<
  <<"n","o">>,
  <<"n","o","p","e">>,
  <<"n","a","h">>,
  <<"n","o","t">>,
  <<"i"," ","d","o","n","'","t">>,
  <<"i"," ","d","i","d"," ","n","o","t">>,
  <<"i"," ","d","i","d","n","'","t">>,
  <<"i"," ","a","m"," ","n","o","t">>,
  <<"i"," ","w","o","n","'","t">>,
  <<"i"," ","w","i","l","l"," ","n","o","t">>,
  <<"i"," ","c","a","n","'","t">>,
  <<"c","a","n","n","o","t">>,
  <<"i","t"," ","i","s","n","'","t">>,
  <<"i","t"," ","i","s"," ","n","o","t">> >>

\* the predicate of yesWords.some / noWords.some
wordMatches(t, w) ==
  startsWith(t, w) \/ includes(t, <<" ">> \o w \o <<" ">>) \/ t = w

someMatches(t, words) == \E i \in 1..Len(words) : wordMatches(t, words[i])

\* a transcript that is null or undefined: no string
NoTranscript == <<"null">>

\* !transcript
falsy(transcript) == transcript = NoTranscript \/ transcript = <<>>

\* parseYesNo with the negative list tested first
parseYesNo_NoFirst(transcript) ==
  IF falsy(transcript) THEN "null"
  ELSE LET t == trim(toLowerCase(transcript)) IN
       IF someMatches(t, noWords) THEN "no"
       ELSE IF someMatches(t, yesWords) THEN "yes"
       ELSE "null"

\* parseYesNo without its first line: null.toLowerCase() throws
parseYesNo_Unguarded(transcript) ==
  IF transcript = NoTranscript THEN "throw"
  ELSE LET t == trim(toLowerCase(transcript)) IN
       IF someMatches(t, yesWords) THEN "yes"
       ELSE IF someMatches(t, noWords) THEN "no"
       ELSE "null"

\* parseYesNo: "yes", "no" or "null"
parseYesNo(transcript) ==
  IF falsy(transcript) THEN "null"
  ELSE LET t == trim(toLowerCase(transcript)) IN
       IF someMatches(t, yesWords) THEN "yes"
       ELSE IF someMatches(t, noWords) THEN "no"
       ELSE "null"

\* ------------------------------------------------------------------------
\* Bounds and inputs
\* ------------------------------------------------------------------------

\* number of user inputs (clicks, edits) in one run
MaxInputs == 3

\* what the user can type into a topic field ("" is shown as "Untitled")
TopicInputs == {"A", ""}

\* what the user can type into the practice time field
PracticeInputs == {0, 2}

\* the count the session button passes to buildSession
SessionCount == 10

\* item lists found in local storage at start-up (non-empty arrays)
StoredItems ==
  { << [id |-> 1, topic |-> "A"], [id |-> 2, topic |-> ""] >> }

\* files the user imports: parsed arrays (one with a repeated id)
ImportArrays ==
  { << [id |-> 1, topic |-> "A"], [id |-> 1, topic |-> ""] >> }

\* the texts of the files the user imports, by what JSON.parse makes of
\* them: a syntax error, an object such as {"a":1}, or an array
ImportTexts ==
  { [syntax |-> "invalid", value |-> <<>>],
    [syntax |-> "object", value |-> <<>>] }
  \cup { [syntax |-> "array", value |-> arr] : arr \in ImportArrays }

\* the counts buildSession is called with in the sequencer specification
SessionCounts == {1, SessionCount}

\* longest transcript, in words, given to the classifier
MaxWords == 2

\* the words of the transcripts given to the classifier
Vocabulary ==
  { <<"y","e","s">>,
    <<"A","b","s","o","l","u","t","e","l","y">>,
    <<"n","o">>,
    <<"n","o","t","h","i","n","g">>,
    <<"I">>,
    <<"d","o">>,
    <<"d","o","n","'","t">>,
    <<"k","n","o","w">>,
    <<"m","a","y","b","e">>,
    <<"S","u","r","e",".">> }

\* the transcripts of at most n words, joined by single spaces
RECURSIVE Sentences(_)
Sentences(n) ==
  IF n = 0 THEN {}
  ELSE Vocabulary \cup Sentences(n - 1)
       \cup { t \o <<" ">> \o v : t \in Sentences(n - 1), v \in Vocabulary }

\* transcripts given to the classifier
ParseInputs == Sentences(MaxWords) \cup { <<>>, <<" ">>, NoTranscript }

\* transcripts the recognizer delivers in the practice flow
Transcripts ==
  { <<"Y","e","s">>, <<"n","o">> }

\* ------------------------------------------------------------------------
\* State
\* ------------------------------------------------------------------------

VARIABLES
  items,            \* useState(loadFromLocalStorage()): sequence of [id, topic]
  selectedTopic,    \* "All" or a topic
  sessionSet,       \* [active, ids]: null is active = FALSE
  sessionCursor,    \* 0-based
  currentIndex,     \* 0-based
  phase,            \* "idle" | "practice" | "reveal"
  needed,           \* [yes, no]
  recognized,       \* latest transcript
  random,
  useTTS,
  practiceSec,
  listening,
  autoAdvanceRef,
  practiceTimerRef, \* id of the timeout last stored in the ref, 0 for null
  timers,           \* pending setTimeout(() => reveal(), ...): [id, remaining, elapsed, snap, latest]
  askQueue,         \* pending setTimeout(() => ask(), 0): captured renders
  startQueue,       \* number of pending setTimeout(() => startRecognition(), 200)
  utter,            \* the utterance speechSynthesis is speaking: <<>> or <<[kind, snap, latest]>>
  cancelled,        \* utterances ended by speechSynthesis.cancel(), event not yet delivered
  recState,         \* recognizer: "inactive" | "active" | "stopping"
  recRender,        \* the render captured by the recognizer effect: [phase, snap]
  recAvailable,     \* the browser has a SpeechRecognition constructor
  ttsAvailable,     \* the browser has SpeechSynthesisUtterance and speechSynthesis
  randoms,          \* the values Math.floor(Math.random() * n) takes in the draw of goNext
  drawn,            \* the outcome of the draw loop of goNext: [idx, guard], or NoDraw
  alertShown,       \* the alert() the last handler showed, "none" if it showed none
  inputs,           \* number of user inputs so far
  yn                \* the value parseYesNo returned for recognized, "none" before a call

vars == << items, selectedTopic, sessionSet, sessionCursor, currentIndex, phase,
           needed, recognized, random, useTTS, practiceSec, listening,
           autoAdvanceRef, practiceTimerRef, timers, askQueue, startQueue,
           utter, cancelled, recState, recRender, recAvailable,
           ttsAvailable, randoms, drawn, alertShown, inputs, yn >>

NullSession == [active |-> FALSE, ids |-> <<>>]

Range(s) == { s[i] : i \in 1..Len(s) }

\* it.topic || "Untitled"
TopicOf(it) == IF it.topic = "" THEN "Untitled" ELSE it.topic

\* topics: Array.from(new Set(items.map(...)))
topics(its) == { TopicOf(its[i]) : i \in 1..Len(its) }

\* the topic-filtered pool
pool(its, topic) ==
  IF topic = "All" THEN its
  ELSE SelectSeq(its, LAMBDA it : TopicOf(it) = topic)

\* viewItems; a session that is an empty array is still truthy
viewItems(its, topic, ss) ==
  IF ss.active
  THEN SelectSeq(pool(its, topic), LAMBDA it : it.id \in Range(ss.ids))
  ELSE pool(its, topic)

IdsOf(its) == [i \in 1..Len(its) |-> its[i].id]

\* current, as the id of the item (0 when undefined)
current(its, topic, ss, cursor, index) ==
  LET view  == viewItems(its, topic, ss)
      first == IF Len(view) > 0 THEN view[1].id
               ELSE IF Len(its) > 0 THEN its[1].id ELSE 0
  IN IF ss.active /\ Len(ss.ids) > 0
     THEN LET id == IF cursor < Len(ss.ids) THEN ss.ids[cursor + 1] ELSE ss.ids[1]
          IN IF \E i \in 1..Len(its) : its[i].id = id THEN id ELSE first
     ELSE IF index < Len(view) THEN view[index + 1].id ELSE first

\* The state as one record, so that the functions of the component can be
\* composed before their result is committed.
World ==
  [ items |-> items, selectedTopic |-> selectedTopic, sessionSet |-> sessionSet,
    sessionCursor |-> sessionCursor, currentIndex |-> currentIndex,
    phase |-> phase, needed |-> needed, recognized |-> recognized,
    random |-> random, useTTS |-> useTTS, practiceSec |-> practiceSec,
    listening |-> listening, autoAdvanceRef |-> autoAdvanceRef,
    practiceTimerRef |-> practiceTimerRef, timers |-> timers,
    askQueue |-> askQueue, startQueue |-> startQueue, utter |-> utter,
    cancelled |-> cancelled, recState |-> recState, yn |-> yn,
    alert |-> "none" ]

\* What the functions created by one render see.
Snap(w) ==
  [ sessionSet    |-> w.sessionSet,
    sessionCursor |-> w.sessionCursor,
    view          |-> IdsOf(viewItems(w.items, w.selectedTopic, w.sessionSet)),
    cur           |-> current(w.items, w.selectedTopic, w.sessionSet,
                              w.sessionCursor, w.currentIndex),
    useTTS        |-> w.useTTS,
    random        |-> w.random,
    practiceSec   |-> w.practiceSec ]

\* ------------------------------------------------------------------------
\* The functions of the component, on a world w, with the render s that
\* created the function
\* ------------------------------------------------------------------------

\* resetNeeded
resetNeeded(w) ==
  [w EXCEPT !.needed = [yes |-> TRUE, no |-> TRUE]]

\* clearTimeout(practiceTimerRef.current)
clearTimeout(w) ==
  [w EXCEPT !.timers = { t \in w.timers : t.id # w.practiceTimerRef }]

\* a timeout id that no pending timeout has
FreshTimerId(ts) ==
  CHOOSE i \in 1..(Cardinality(ts) + 1) : \A t \in ts : t.id # i

\* practiceTimerRef.current = setTimeout(() => reveal(), practiceSec * 1000)
\* (l: whether the latest ask() arms it)
armTimer(w, s, l) ==
  LET id == FreshTimerId(w.timers) IN
  [w EXCEPT !.timers = @ \cup {[id |-> id, remaining |-> s.practiceSec,
                                elapsed |-> 0, snap |-> s, latest |-> l]},
            !.practiceTimerRef = id]

\* the arming without the clearTimeout before it
rearmTimer_NoClear(w, s, l) == armTimer(w, s, l)

\* clearTimeout(...); practiceTimerRef.current = setTimeout(...)
rearmTimer(w, s, l) == armTimer(clearTimeout(w), s, l)

\* speak(text, voice, rate, pitch, onend): speechSynthesis.cancel() ends the
\* utterance being spoken, whose error event runs its onend later. Without
\* speech synthesis the body throws, the catch logs, and onend never runs.
speak(w, kind, s) ==
  IF ~ttsAvailable THEN w
  ELSE [w EXCEPT !.cancelled = @ \o w.utter,
                 !.utter = << [kind |-> kind, snap |-> s, latest |-> kind = "ask"] >>]

\* recRef.current.stop()
recStop(w) ==
  [w EXCEPT !.recState = IF @ = "active" THEN "stopping" ELSE @]

\* startRecognition: start() throws on a recognizer that has not ended;
\* without a recognizer recRef.current?.start?.() is undefined and does not
\* throw
startRecognition(w) ==
  LET w1 == recStop(w) IN
  IF ~recAvailable THEN [w EXCEPT !.listening = TRUE]
  ELSE IF w1.recState = "inactive"
  THEN [w1 EXCEPT !.recState = "active", !.listening = TRUE]
  ELSE [w1 EXCEPT !.listening = FALSE]

\* the onend callback ask() gives to speak(), u being the utterance
askSpoken(w, u) ==
  rearmTimer([w EXCEPT !.startQueue = @ + 1], u.snap, u.latest)

\* history: what earlier calls of ask() created is no longer the latest
outdate(w) ==
  [w EXCEPT !.timers = { [t EXCEPT !.latest = FALSE] : t \in @ },
            !.utter = [i \in DOMAIN @ |-> [@[i] EXCEPT !.latest = FALSE]],
            !.cancelled = [i \in DOMAIN @ |-> [@[i] EXCEPT !.latest = FALSE]]]

\* ask without the call of resetNeeded
ask_NoReset(w, s) ==
  LET w1 == [outdate(w) EXCEPT !.phase = "practice"] IN
  IF s.useTTS
  THEN speak(w1, "ask", s)
  ELSE rearmTimer(startRecognition(w1), s, TRUE)

\* ask
ask(w, s) ==
  LET w1 == [resetNeeded(outdate(w)) EXCEPT !.phase = "practice"] IN
  IF s.useTTS
  THEN speak(w1, "ask", s)
  ELSE rearmTimer(startRecognition(w1), s, TRUE)

\* goNext, idx being the outcome of the random draws
goNext(w, s, idx) ==
  IF s.sessionSet.active /\ Len(s.sessionSet.ids) > 0
  THEN LET next == s.sessionCursor + 1 IN
       IF next < Len(s.sessionSet.ids)
       THEN [resetNeeded(w) EXCEPT !.sessionCursor = next, !.autoAdvanceRef = TRUE]
       ELSE [w EXCEPT !.phase = "idle", !.sessionSet = NullSession,
                      !.alert = "sessionEnd"]
  ELSE IF Len(s.view) = 0 THEN w
  ELSE [resetNeeded(w) EXCEPT
          !.currentIndex = IF s.random THEN idx ELSE (@ + 1) % Len(s.view),
          !.autoAdvanceRef = TRUE]

\* guard < 10
MaxRedraws == 10

\* before the draw loop has run
NoDraw == [idx |-> 0, guard |-> 0 - 1]

\* the draw of goNext that accepts its first value
drawLoop_NoRedraw(s, rs) == [idx |-> rs[1], guard |-> 0]

\* while (viewItems[idx]?.id === currentId && guard < 10) { idx = ...; guard++ }
\* with rs[guard + 1] the value drawn last
RECURSIVE redraw(_, _, _)
redraw(s, rs, guard) ==
  IF s.view[rs[guard + 1] + 1] = s.cur /\ guard < MaxRedraws
  THEN redraw(s, rs, guard + 1)
  ELSE [idx |-> rs[guard + 1], guard |-> guard]

\* the draw of goNext in random mode, rs being the values of
\* Math.floor(Math.random() * viewItems.length) in the order drawn
drawLoop(s, rs) ==
  IF Len(s.view) > 1 THEN redraw(s, rs, 0)
  ELSE [idx |-> rs[1], guard |-> 0]

\* the indices the random branch of goNext can end with
DrawnIndices(s) ==
  IF Len(s.view) = 0 \/ ~s.random \/ (s.sessionSet.active /\ Len(s.sessionSet.ids) > 0)
  THEN {0}
  ELSE 0..(Len(s.view) - 1)

\* reveal
reveal(w, s, idx) ==
  LET w1 == recStop([w EXCEPT !.phase = "reveal"]) IN
  IF s.useTTS
  THEN speak(w1, "reveal", s)
  ELSE goNext(w1, s, idx)

\* fastReveal, ph being the phase of the render that created it
fastReveal(w, ph, s, idx) ==
  IF ph # "practice" THEN w
  ELSE reveal(clearTimeout(w), s, idx)

\* rec.onresult without the test of isFinal
onresult_AnyResult(w, txt, isFinal, r, idx) ==
  LET v == parseYesNo(txt) IN
  IF v \in {"yes", "no"}
  THEN LET w1 == [w EXCEPT !.needed[v] = FALSE] IN
       IF ~w1.needed.yes /\ ~w1.needed.no
       THEN fastReveal(w1, r.phase, r.snap, idx)
       ELSE w1
  ELSE w

\* rec.onresult
onresult(w, txt, isFinal, r, idx) ==
  IF ~isFinal THEN w
  ELSE LET v == parseYesNo(txt) IN
       IF v \in {"yes", "no"}
       THEN LET w1 == [w EXCEPT !.needed[v] = FALSE] IN
            IF ~w1.needed.yes /\ ~w1.needed.no
            THEN fastReveal(w1, r.phase, r.snap, idx)
            ELSE w1
       ELSE w

\* the ids of a pool with their repetitions
uniqueIds_Keep(ids) == ids

\* the ids of a pool without repetitions, in order of first occurrence
RECURSIVE uniqueIds(_)
uniqueIds(ids) ==
  IF ids = <<>> THEN <<>>
  ELSE LET front == uniqueIds(SubSeq(ids, 1, Len(ids) - 1))
           last  == ids[Len(ids)]
       IN IF last \in Range(front) THEN front ELSE Append(front, last)

\* the orders unique.sort(() => Math.random() - 0.5) can produce
Shuffles(ids) ==
  { p \in [1..Len(ids) -> Range(ids)] : Range(p) = Range(ids) }

Min(a, b) == IF a < b THEN a ELSE b

\* buildSession, shuffled being the outcome of the sort
buildSession(w, count, shuffled) ==
  LET ids == SubSeq(shuffled, 1, Min(count, Len(shuffled))) IN
  [resetNeeded(w) EXCEPT !.sessionSet = [active |-> TRUE, ids |-> ids],
                         !.sessionCursor = 0,
                         !.autoAdvanceRef = TRUE]

\* the effect on [sessionCursor, currentIndex], run after the render that
\* follows a handler which produced w
autoAdvanceEffect(w) ==
  IF (w.sessionCursor # sessionCursor \/ w.currentIndex # currentIndex)
     /\ w.autoAdvanceRef
  THEN [w EXCEPT !.autoAdvanceRef = FALSE, !.askQueue = Append(@, Snap(w))]
  ELSE w

\* a handler's updates, then the render and its effects
Commit(w0) ==
  LET w == autoAdvanceEffect(w0) IN
  /\ items' = w.items
  /\ selectedTopic' = w.selectedTopic
  /\ sessionSet' = w.sessionSet
  /\ sessionCursor' = w.sessionCursor
  /\ currentIndex' = w.currentIndex
  /\ phase' = w.phase
  /\ needed' = w.needed
  /\ recognized' = w.recognized
  /\ random' = w.random
  /\ useTTS' = w.useTTS
  /\ practiceSec' = w.practiceSec
  /\ listening' = w.listening
  /\ autoAdvanceRef' = w.autoAdvanceRef
  /\ practiceTimerRef' = w.practiceTimerRef
  /\ timers' = w.timers
  /\ askQueue' = w.askQueue
  /\ startQueue' = w.startQueue
  /\ utter' = w.utter
  /\ cancelled' = w.cancelled
  /\ recState' = w.recState
  /\ yn' = w.yn
  /\ alertShown' = w.alert
  /\ UNCHANGED << recRender, recAvailable, ttsAvailable >>

\* no task is waiting that runs before anything else
Quiet == askQueue = <<>> /\ cancelled = <<>>

\* a handler run by a timeout, a speech or a recognizer event
Event(w) == Commit(w) /\ UNCHANGED << inputs, randoms, drawn >>

\* a handler run by a user input
Input(w) ==
  /\ Quiet
  /\ inputs < MaxInputs
  /\ inputs' = inputs + 1
  /\ Commit(w)
  /\ UNCHANGED << randoms, drawn >>

\* ------------------------------------------------------------------------
\* Initial state: the first render
\* ------------------------------------------------------------------------

InitWorld(its) ==
  [ items |-> its, selectedTopic |-> "All", sessionSet |-> NullSession,
    sessionCursor |-> 0, currentIndex |-> 0, phase |-> "idle",
    needed |-> [yes |-> TRUE, no |-> TRUE], recognized |-> <<>>,
    random |-> TRUE, useTTS |-> TRUE, practiceSec |-> 8,
    listening |-> FALSE, autoAdvanceRef |-> FALSE, practiceTimerRef |-> 0,
    timers |-> {}, askQueue |-> <<>>, startQueue |-> 0, utter |-> <<>>,
    cancelled |-> <<>>, recState |-> "inactive", yn |-> "none",
    alert |-> "none" ]

InitWith(its, txt, rec, tts, rs) ==
    /\ items = its
    /\ selectedTopic = "All"
    /\ sessionSet = NullSession
    /\ sessionCursor = 0
    /\ currentIndex = 0
    /\ phase = "idle"
    /\ needed = [yes |-> TRUE, no |-> TRUE]
    /\ recognized = txt
    /\ random = TRUE
    /\ useTTS = TRUE
    /\ practiceSec = 8
    /\ listening = FALSE
    /\ autoAdvanceRef = FALSE
    /\ practiceTimerRef = 0
    /\ timers = {}
    /\ askQueue = <<>>
    /\ startQueue = 0
    /\ utter = <<>>
    /\ cancelled = <<>>
    /\ recState = "inactive"
    /\ recRender = [phase |-> "idle", snap |-> Snap(InitWorld(its))]
    /\ recAvailable = rec
    /\ ttsAvailable = tts
    /\ randoms = rs
    /\ drawn = NoDraw
    /\ alertShown = "none"
    /\ inputs = 0
    /\ yn = "none"

Init == \E its \in StoredItems : InitWith(its, <<>>, TRUE, TRUE, <<>>)

\* the first render in a browser with or without speech recognition and
\* speech synthesis
InitEnv ==
  \E its \in StoredItems, rec \in BOOLEAN, tts \in BOOLEAN :
    InitWith(its, <<>>, rec, tts, <<>>)

\* ------------------------------------------------------------------------
\* Actions: user input, timeouts, speech and recognizer events
\* ------------------------------------------------------------------------

\* the button "質問を読む → 練習開始", disabled without a current item
ClickAsk ==
  /\ Snap(World).cur # 0
  /\ Input(ask(World, Snap(World)))

\* setTimeout(() => ask(), 0) of the auto-advance effect fires
AskTimeout ==
  /\ askQueue # <<>>
  /\ Event(ask([World EXCEPT !.askQueue = Tail(@)], Head(askQueue)))

\* buildSession(count) from a state in which the session button is shown
BuildWith(count) ==
  /\ ~sessionSet.active
  /\ \E shuffled \in Shuffles(uniqueIds(IdsOf(pool(items, selectedTopic)))) :
       Input(buildSession(World, count, shuffled))

\* the session button, shown while sessionSet is falsy
StartSession == BuildWith(SessionCount)

\* buildSession with any of the counts
BuildSession == \E count \in SessionCounts : BuildWith(count)

\* the topic select
TopicChange ==
  \E t \in {"All"} \cup topics(items) :
    /\ t # selectedTopic
    /\ Input([World EXCEPT !.selectedTopic = t, !.sessionSet = NullSession,
                            !.sessionCursor = 0, !.currentIndex = 0])

ToggleTTS == Input([World EXCEPT !.useTTS = ~@])

ToggleRandom == Input([World EXCEPT !.random = ~@])

Max(a, b) == IF a > b THEN a ELSE b

\* Math.max(3, Math.min(20, Number(e.target.value) || 8))
clampPracticeSec(v) == Max(3, Min(20, IF v = 0 THEN 8 ELSE v))

SetPracticeSec ==
  \E v \in PracticeInputs :
    Input([World EXCEPT !.practiceSec = clampPracticeSec(v)])

\* the onend of an utterance
utterEnded(w, u, idx) ==
  IF u.kind = "ask" THEN askSpoken(w, u)
  ELSE goNext(w, u.snap, idx)

\* the utterance being spoken ends
SpeechEnd ==
  /\ Quiet
  /\ utter # <<>>
  /\ \E idx \in DrawnIndices(utter[1].snap) :
       Event(utterEnded([World EXCEPT !.utter = <<>>], utter[1], idx))

\* the error event of a cancelled utterance is delivered
CancelledEvent ==
  /\ cancelled # <<>>
  /\ \E idx \in DrawnIndices(Head(cancelled).snap) :
       Event(utterEnded([World EXCEPT !.cancelled = Tail(@)], Head(cancelled), idx))

\* setTimeout(() => startRecognition(), 200) fires
StartRecTimeout ==
  /\ Quiet
  /\ startQueue > 0
  /\ Event(startRecognition([World EXCEPT !.startQueue = @ - 1]))

\* the recognizer delivers the transcript txt, interim or final
OnResultWith(txt, isFinal) ==
  /\ Quiet
  /\ recState # "inactive"
  /\ \E idx \in DrawnIndices(recRender.snap) :
       Event(onresult(World, txt, isFinal, recRender, idx))

\* the recognizer delivers a result
OnResult ==
  \E txt \in Transcripts, isFinal \in BOOLEAN : OnResultWith(txt, isFinal)

\* rec.onend / rec.onerror
RecEnd ==
  /\ Quiet
  /\ recState # "inactive"
  /\ Event([World EXCEPT !.recState = "inactive", !.listening = FALSE])

\* a countdown expires
TimerFire ==
  \E t \in timers :
    /\ Quiet
    /\ t.remaining = 0
    /\ \E idx \in DrawnIndices(t.snap) :
         Event(reveal([World EXCEPT !.timers = @ \ {t}], t.snap, idx))

\* the time to the next expiry
NextExpiry(ts) ==
  CHOOSE d \in { t.remaining : t \in ts } : \A t \in ts : d <= t.remaining

\* time passes until the next countdown expires
Tick ==
  /\ timers # {}
  /\ \A t \in timers : t.remaining > 0
  /\ Quiet /\ startQueue = 0
  /\ Event([World EXCEPT
       !.timers = { [t EXCEPT !.remaining = @ - NextExpiry(timers),
                              !.elapsed = @ + NextExpiry(timers)] : t \in timers }])

RECURSIVE maxId(_)
maxId(its) ==
  IF its = <<>> THEN 0 ELSE Max(Head(its).id, maxId(Tail(its)))

\* addNewItem
AddNewItem ==
  Input([World EXCEPT !.items =
    Append(@, [id |-> maxId(items) + 1,
               topic |-> IF selectedTopic = "All" THEN "Untitled"
                         ELSE selectedTopic])])

\* the delete button of an item
DeleteItem ==
  \E i \in 1..Len(items) :
    Input([World EXCEPT !.items =
      SelectSeq(@, LAMBDA p : p.id # items[i].id)])

\* the topic field of an item
EditTopic ==
  \E i \in 1..Len(items), t \in TopicInputs :
    /\ items[i].topic # t
    /\ Input([World EXCEPT !.items =
         [k \in 1..Len(items) |->
            IF items[k].id = items[i].id THEN [items[k] EXCEPT !.topic = t]
            ELSE items[k]]])

\* the onImport handler without the test Array.isArray(arr)
onImport_NoCheck(w, text) ==
  IF text.syntax = "invalid" THEN [w EXCEPT !.alert = "failed"]
  ELSE [w EXCEPT !.items = text.value]

\* the onImport handler: JSON.parse throws on a syntax error
onImport(w, text) ==
  IF text.syntax = "invalid" THEN [w EXCEPT !.alert = "failed"]
  ELSE IF text.syntax = "array" THEN [w EXCEPT !.items = text.value]
  ELSE [w EXCEPT !.alert = "notArray"]

\* ImportButton onImport with the text of a file
ImportWith(text) == Input(onImport(World, text))

Import == \E text \in ImportTexts : ImportWith(text)

\* the practice flow and the sequencer
Flow ==
  \/ ClickAsk
  \/ AskTimeout
  \/ StartSession
  \/ TopicChange
  \/ SpeechEnd
  \/ CancelledEvent
  \/ StartRecTimeout
  \/ OnResult
  \/ RecEnd
  \/ TimerFire
  \/ Tick

\* the settings of the practice panel
Settings ==
  \/ ToggleTTS
  \/ ToggleRandom
  \/ SetPracticeSec

\* the item list editor
Editing ==
  \/ AddNewItem
  \/ DeleteItem
  \/ EditTopic
  \/ Import

Next ==
  \/ Flow
  \/ Settings

\* the practice flow with its settings
Spec == Init /\ [][Next]_vars

\* the practice flow in any browser
SpecEnv == InitEnv /\ [][Next]_vars

\* the first render, with the values Math.random will give the draw
InitDraw ==
  \E its \in StoredItems :
    \E rs \in [1..(MaxRedraws + 1) -> 0..(Len(its) - 1)] :
      InitWith(its, <<>>, TRUE, TRUE, rs)

\* goNext in open-pool random mode, drawing from randoms
GoNextRandom ==
  /\ drawn = NoDraw
  /\ random /\ ~sessionSet.active
  /\ Len(randoms) = MaxRedraws + 1
  /\ drawn' = drawLoop(Snap(World), randoms)
  /\ Commit(goNext(World, Snap(World), drawn'.idx))
  /\ UNCHANGED << inputs, randoms >>

\* the draw of goNext alone
SpecDraw == InitDraw /\ [][GoNextRandom]_vars

NextItems ==
  \/ Flow
  \/ Editing

\* the practice flow over an item list that is edited
SpecItems == Init /\ [][NextItems]_vars

NextSession ==
  \/ BuildSession
  \/ TopicChange
  \/ Editing

\* the sequencer alone: sessions built over an item list that is edited
SpecSession == Init /\ [][NextSession]_vars

\* the first render, with a transcript for the classifier
InitParse ==
  \E its \in StoredItems, txt \in ParseInputs : InitWith(its, txt, TRUE, TRUE, <<>>)

\* const yn = parseYesNo(txt)
Classify ==
  /\ yn = "none"
  /\ Event([World EXCEPT !.yn = parseYesNo(recognized)])

\* the classifier alone, applied to a transcript
SpecParse == InitParse /\ [][Classify]_vars


\* ------------------------------------------------------------------------
\* Properties
\* ------------------------------------------------------------------------

AllNeeded == [yes |-> TRUE, no |-> TRUE]

\* the id of the current item in this state
Cur == Snap(World).cur

\* the question of an ask() is still being spoken: its countdown is not armed
AskBeingSpoken == utter # <<>> /\ utter[1].kind = "ask"

\* a step in which goNext() runs: the end of a reveal utterance, or a
\* countdown whose reveal() does not speak
GoNextRuns ==
  \/ SpeechEnd /\ utter[1].kind = "reveal"
  \/ CancelledEvent /\ Head(cancelled).kind = "reveal"
  \/ TimerFire /\ \E t \in timers : t.remaining = 0 /\ ~t.snap.useTTS /\ t \notin timers'

\* C1: when, in phase 'practice' with a countdown armed, a final transcript
\* makes both tracker flags false, that same step invokes reveal() (the phase
\* leaves 'practice') and cancels the countdown (no countdown is pending).
C1_EarlyReveal ==
  [][(/\ phase = "practice" /\ timers # {}
      /\ OnResult
      /\ needed # needed' /\ ~needed'.yes /\ ~needed'.no)
     => (phase' # "practice" /\ timers' = {})]_vars

\* C2: a countdown that invokes reveal() in phase 'practice' is the
\* countdown of the question in practice, armed for the latest ask(), and it
\* has run for exactly the practiceSec of that ask(): reveal() is not
\* invoked earlier.
C2_TimeoutReveal ==
  [][(phase = "practice" /\ TimerFire)
     => \A t \in timers \ timers' :
          t.latest /\ t.elapsed = t.snap.practiceSec]_vars

\* C3: at most one countdown is pending in every reachable state.
C3_OneCountdown == Cardinality(timers) <= 1

\* C3 witness: a countdown is pending while a later ask() is waiting for its
\* question to be spoken, after which it arms a countdown of its own.
C3_Witness ==
  /\ Cardinality(timers) = 1
  /\ AskBeingSpoken
  /\ phase = "practice"

\* C4: a step that changes the phase or the current question leaves none of
\* the countdowns armed before it pending, and a countdown fires only in
\* phase 'practice' and for the item that is current.
C4_TransitionsCancel ==
  [][/\ (phase' # phase \/ Cur' # Cur) => (timers' \cap timers = {})
     /\ TimerFire => (/\ phase = "practice"
                      /\ \A t \in timers : t.remaining = 0 => t.snap.cur = Cur)]_vars

\* C6: in a session, goNext() with the cursor at the last position clears
\* the session, sets the phase to 'idle' and schedules no ask(); at an
\* earlier position it advances the cursor by exactly one and keeps the
\* session.
C6_SessionAdvance ==
  [][(GoNextRuns /\ sessionSet.active /\ Len(sessionSet.ids) > 0)
     => IF sessionCursor = Len(sessionSet.ids) - 1
        THEN sessionSet' = NullSession /\ phase' = "idle" /\ askQueue' = askQueue
        ELSE sessionCursor' = sessionCursor + 1 /\ sessionSet' = sessionSet]_vars

\* reveal() has completed: phase 'reveal' and no reveal utterance to end
RevealDone ==
  /\ phase = "reveal"
  /\ \A i \in DOMAIN utter : utter[i].kind # "reveal"
  /\ \A i \in DOMAIN cancelled : cancelled[i].kind # "reveal"

\* no timeout, utterance or utterance event is pending
NothingPending ==
  /\ askQueue = <<>> /\ startQueue = 0
  /\ utter = <<>> /\ cancelled = <<>>
  /\ timers = {}

\* C5, for the open pool with a view of one item: once reveal() has
\* completed, ask() is called again. The program is never left in phase
\* 'reveal' with reveal() completed and no timeout, utterance or utterance
\* event pending that would call ask().
C5_PracticeLoop ==
  ~(/\ RevealDone
    /\ ~sessionSet.active
    /\ Len(Snap(World).view) = 1
    /\ NothingPending)

\* the ids of the topic-filtered pool
PoolIds == Range(IdsOf(pool(items, selectedTopic)))

\* the session buildSession(count) leaves has n ids, pairwise distinct, all
\* of the pool, and the cursor is 0
SessionBuilt(n) ==
  /\ sessionSet'.active
  /\ Len(sessionSet'.ids) = n
  /\ \A i, j \in 1..Len(sessionSet'.ids) : i # j => sessionSet'.ids[i] # sessionSet'.ids[j]
  /\ Range(sessionSet'.ids) \subseteq PoolIds
  /\ sessionCursor' = 0

\* C7 as claimed: buildSession(count) leaves min(count, size of the
\* topic-filtered pool) ids, pairwise distinct, all of the pool, cursor 0.
C7_SessionSize ==
  [][\A count \in SessionCounts :
       BuildWith(count)
         => SessionBuilt(Min(count, Len(pool(items, selectedTopic))))]_vars

\* C7 amended: buildSession(count) leaves min(count, number of distinct ids
\* in the topic-filtered pool) ids, pairwise distinct, all of the pool,
\* cursor 0.
C7_SessionSizeDistinct ==
  [][\A count \in SessionCounts :
       BuildWith(count) => SessionBuilt(Min(count, Cardinality(PoolIds)))]_vars

\* C7 witness: a session built over a pool in which an id is repeated.
C7_Witness ==
  /\ sessionSet.active
  /\ Cardinality(PoolIds) < Len(pool(items, selectedTopic))
  /\ Len(sessionSet.ids) = Cardinality(PoolIds)
  /\ sessionCursor = 0

\* C8: while a session is active the cursor is a valid index of its
\* sequence.
C8_CursorValid ==
  sessionSet.active => (0 <= sessionCursor /\ sessionCursor < Len(sessionSet.ids))

\* C9: every call of ask(), from the button or from the auto-advance
\* timeout, in any phase and with any tracker value, leaves the phase
\* 'practice' and the tracker {yes: true, no: true}.
C9_AskResetsTracker ==
  [][(ClickAsk \/ AskTimeout) => (phase' = "practice" /\ needed' = AllNeeded)]_vars

\* C9 witness: ask() has run again while the recognizer started for an
\* earlier ask() is still active, and the tracker is reset.
C9_Witness ==
  /\ phase = "practice"
  /\ needed = AllNeeded
  /\ utter # <<>> /\ utter[1].kind = "ask"
  /\ recState = "active"

\* the transcript, normalised, holds a phrase of the list as whole words:
\* at its start, between two spaces, or at its end
HasPhrase(txt, words) ==
  LET t == <<" ">> \o trim(toLowerCase(txt)) \o <<" ">> IN
  \E i \in 1..Len(words) : includes(t, <<" ">> \o words[i] \o <<" ">>)

\* C10: a classified transcript that holds an affirmative phrase as whole
\* words at any position and no negative phrase is 'yes'; one that holds a
\* negative phrase and no affirmative phrase is 'no'.
C10_PhraseAnywhere ==
  yn # "none" =>
    /\ (HasPhrase(recognized, yesWords) /\ ~HasPhrase(recognized, noWords))
         => yn = "yes"
    /\ (HasPhrase(recognized, noWords) /\ ~HasPhrase(recognized, yesWords))
         => yn = "no"

\* the transcript as the classifier normalises it
Normal(txt) == trim(toLowerCase(txt))

\* the phrases of the negative list that negate a phrase of the
\* affirmative list: "i don't", "i did not", ..., "it isn't", "it is not"
NegatedPhrases ==
  { noWords[i] : i \in { k \in 1..Len(noWords) :
       startsWith(noWords[k], <<"i"," ">>) \/ startsWith(noWords[k], <<"i","t"," ">>) } }

\* C11: a classified transcript that begins with a negated phrase of the
\* negative list is 'no'.
C11_NegatedPhrase ==
  (yn # "none" /\ \E w \in NegatedPhrases : startsWith(Normal(recognized), w))
    => yn = "no"

\* a phrase of the affirmative list and a phrase of the negative list both
\* match the transcript (equal, start, or between two spaces)
BothMatch(txt) ==
  /\ ~falsy(txt)
  /\ \E i \in 1..Len(yesWords) :
       LET w == yesWords[i] IN
       \/ Normal(txt) = w
       \/ startsWith(Normal(txt), w)
       \/ includes(Normal(txt), <<" ">> \o w \o <<" ">>)
  /\ \E i \in 1..Len(noWords) :
       LET w == noWords[i] IN
       \/ Normal(txt) = w
       \/ startsWith(Normal(txt), w)
       \/ includes(Normal(txt), <<" ">> \o w \o <<" ">>)

IsWordChar(c) == c \in Range(LowerChars) \cup {"'"}

\* the transcript, normalised, holds a phrase of the list as whole words:
\* the characters before and after the occurrence, if any, are not
\* characters of a word
HasWholePhrase(txt, words) ==
  LET t == Normal(txt) IN
  \E k \in 1..Len(words) :
    \E i \in 1..(Len(t) - Len(words[k]) + 1) :
      LET j == i + Len(words[k]) - 1 IN
      /\ SubSeq(t, i, j) = words[k]
      /\ (i = 1 \/ ~IsWordChar(t[i - 1]))
      /\ (j = Len(t) \/ ~IsWordChar(t[j + 1]))

\* C13: a classified transcript that holds no phrase of either list as
\* whole words is unknown (null).
C13_WholeWord ==
  (/\ yn # "none"
   /\ ~HasWholePhrase(recognized, yesWords)
   /\ ~HasWholePhrase(recognized, noWords))
    => yn = "null"

\* the inputs the claim names: "", null, "maybe"
UnknownInputs == { <<>>, NoTranscript, <<"m","a","y","b","e">> }

\* the state of the component is the state of the first render
NoSideEffect ==
  /\ items \in StoredItems
  /\ World = [InitWorld(items) EXCEPT !.recognized = recognized, !.yn = yn]
  /\ inputs = 0

\* C14: the empty string, a missing transcript and "maybe" are classified
\* unknown (null); the call changes no state of the component, and a
\* second call with the same transcript returns the same result.
C14_Unknown ==
  /\ NoSideEffect
  /\ yn # "none" =>
       /\ yn \in {"yes", "no", "null"}
       /\ recognized \in UnknownInputs => yn = "null"
       /\ yn = parseYesNo(recognized)

\* C14 witness: a missing transcript has been classified.
C14_Witness == recognized = NoTranscript /\ yn = "null"

\* a call of recognizer.start() now would fail: there is no recognizer, or
\* the recognizer has not ended
StartWouldFail == ~recAvailable \/ recState # "inactive"

\* a step in which ask() calls startRecognition() itself
AskStartsRecognition ==
  \/ ClickAsk /\ ~useTTS
  \/ AskTimeout /\ ~Head(askQueue).useTTS

\* C15: when startRecognition() runs and the recognizer fails to start,
\* 'listening' is false afterwards and a countdown is armed.
C15_StartFailure ==
  [][(StartWouldFail /\ (StartRecTimeout \/ AskStartsRecognition))
     => (listening' = FALSE /\ timers' # {})]_vars

\* a step in which ask() runs with speech output enabled
AskSpeaks ==
  \/ ClickAsk /\ useTTS
  \/ AskTimeout /\ Head(askQueue).useTTS

\* C16: when ask() runs with speech output enabled and speech synthesis is
\* unavailable, the phase is 'practice', a countdown is armed and a
\* recognizer that can start is started, as with speech output disabled.
C16_NoSpeechOutput ==
  [][(AskSpeaks /\ ~ttsAvailable)
     => /\ phase' = "practice"
        /\ timers' # {}
        /\ (recAvailable /\ recState = "inactive") => recState' = "active"]_vars

\* the answers of reveal() are being spoken
AnswerBeingSpoken == utter # <<>> /\ utter[1].kind = "reveal"

\* C17, while the answers are being spoken: in phase 'reveal' the
\* recognizer is not running; reveal() has stopped it and nothing starts it,
\* the delayed start of 200 ms included.
C17_NoListeningInReveal ==
  (phase = "reveal" /\ AnswerBeingSpoken) => recState # "active"

\* C18, once the question has been spoken (or skipped): in phase 'practice'
\* exactly one countdown is armed, and in phases 'idle' and 'reveal' none.
C18_CountdownPerPhase ==
  /\ (phase = "practice" /\ ~AskBeingSpoken /\ cancelled = <<>>)
       => Cardinality(timers) = 1
  /\ phase \in {"idle", "reveal"} => timers = {}

\* the view of this state, as ids
View == Snap(World).view

\* C19: in open-pool random mode on a view of more than one item, goNext()
\* draws again while the item drawn is the current one, at most 10 times,
\* then accepts what it drew: the number of redraws is at most 10, every
\* value before the accepted one was the current item, the accepted one is
\* another item unless 10 redraws were made, and the index chosen is a valid
\* index of the view.
C19_DrawLoop ==
  [][(GoNextRandom /\ Len(View) > 1)
     => /\ drawn'.guard \in 0..MaxRedraws
        /\ \A k \in 1..drawn'.guard : View[randoms[k] + 1] = Cur
        /\ drawn'.idx = randoms[drawn'.guard + 1]
        /\ drawn'.guard < MaxRedraws => View[drawn'.idx + 1] # Cur
        /\ drawn'.idx \in 0..(Len(View) - 1)
        /\ drawn'.idx \in DrawnIndices(Snap(World))
        /\ currentIndex' = drawn'.idx]_vars

\* C19 witness: every value drawn was the current item, 10 redraws were
\* made and the repeat was accepted.
C19_Witness ==
  /\ drawn.guard = MaxRedraws
  /\ \A k \in 1..Len(randoms) : randoms[k] = 0
  /\ currentIndex = 0
  /\ autoAdvanceRef

\* C20: an import of a text that does not parse, or that parses to a value
\* that is not an array, leaves the item list, the session, the cursor and
\* the phase unchanged and shows an alert; an import of a text that parses
\* to an array replaces the item list with that array.
C20_Import ==
  [][\A text \in ImportTexts :
       ImportWith(text)
         => IF text.syntax = "array"
            THEN items' = text.value /\ alertShown' = "none"
            ELSE /\ items' = items
                 /\ sessionSet' = sessionSet
                 /\ sessionCursor' = sessionCursor
                 /\ phase' = phase
                 /\ alertShown' # "none"]_vars

\* C20 witness: an object was imported to a list edited before; the import
\* was rejected with the alert and the list is not empty.
C20_Witness ==
  /\ alertShown = "notArray"
  /\ inputs > 1
  /\ items # <<>>
  /\ items \notin StoredItems

\* C21: a session built over a non-empty pool starts its first question
\* without a click: the program is never left with an active session, phase
\* 'idle', the auto-advance flag set, and no timeout or utterance pending
\* that would call ask().
C21_SessionStarts ==
  ~(/\ sessionSet.active /\ Len(sessionSet.ids) > 0
    /\ phase = "idle"
    /\ autoAdvanceRef
    /\ NothingPending)

\* C22: a result delivered while the phase is not 'practice' changes no
\* tracker flag and does not invoke reveal().
C22_OnlyInPractice ==
  [][(OnResult /\ phase # "practice") => (needed' = needed /\ phase' = phase)]_vars

\* a step in which resetNeeded() runs: ask(), buildSession() or goNext()
ResetRuns == ClickAsk \/ AskTimeout \/ StartSession \/ GoNextRuns

\* C23: a tracker flag goes from false to true only in a step that runs
\* resetNeeded(), which sets both; an interim transcript changes no flag; a
\* final transcript changes no flag but the one of its polarity.
C23_TrackerMonotone ==
  [][needed' # needed =>
       /\ (\E f \in {"yes", "no"} : ~needed[f] /\ needed'[f])
            => (ResetRuns /\ needed' = AllNeeded)
       /\ \A txt \in Transcripts :
            /\ ~OnResultWith(txt, FALSE)
            /\ OnResultWith(txt, TRUE)
                 => \A f \in {"yes", "no"} :
                      parseYesNo(txt) # f => needed'[f] = needed[f]]_vars

\* C23 witness: in phase 'practice' a final 'yes' has cleared its flag and
\* left the other set, the recognizer still delivering results.
C23_Witness ==
  /\ phase = "practice"
  /\ ~needed.yes /\ needed.no
  /\ recState = "active"

====
